---- MODULE Spec2Model ----
(***************************************************************************)
(* HapSNPeval.cpp: main().  The options are parsed, the alignment file is  *)
(* opened and read into four sequences (true_one, true_two, test_one,      *)
(* test_two), which the column loop walks once, column by column; each     *)
(* column is classified as a homozygous site, a heterozygous SNP or an     *)
(* indel, and the two phase identities and the eight counters are updated. *)
(*                                                                         *)
(* Spec, SpecOut, SpecRerun and SpecRagged start at the column loop;       *)
(* SpecMain starts at the entry of main.                                   *)
(*                                                                         *)
(* The C++ index i is 0-based; TLA+ sequences are 1-based.  Here i is the  *)
(* value of the loop variable, so the column being classified is the       *)
(* (i+1)-th element of each sequence, and after a step the column just     *)
(* classified is element i'.                                               *)
(***************************************************************************)
EXTENDS Integers, Sequences, FiniteSets

\* ------------------------------------------------------------------ inputs
\* Longest alignment explored over every column pattern.
MaxLen == 2

\* Longest alignment explored over the phase columns below.
MaxLongLen == 3

\* Most options on a command line, and most lines read from a file.
MaxArgs == 1
MaxLines == 4

\* The gap symbol the loop compares against.
Gap == "-"

\* Bases of the explored alignments, plus the gap symbol.
Alphabet == {"A", "C", "G", Gap}

Rank(b) == CASE b = "A" -> 1 [] b = "C" -> 2 [] b = "G" -> 3 [] OTHER -> 0

Max(S) == CHOOSE m \in S : \A x \in S : x <= m

\* A column is <<true_one[i], true_two[i], test_one[i], test_two[i]>>.
\* The loop compares the four characters of a column only with each other and
\* with the gap symbol, never across columns.  A column is therefore explored
\* up to renaming of its bases: reading true_one, true_two, test_one, test_two
\* in this order, the first base met is "A", the next new one "C", the next
\* new one "G".  Every pattern of equalities and gaps among the four characters
\* that three bases and a gap can form is present.
Columns ==
    { c \in [1..4 -> Alphabet] :
        \A k \in 1..4 :
            c[k] # Gap =>
                Rank(c[k]) <= 1 + Max({0} \cup {Rank(c[j]) : j \in 1..(k-1)}) }

\* Columns for the longer alignments: the nine heterozygous SNP columns
\* A/C in which each test base is A, C or G, the homozygous column AAAA and
\* the indel column A-AA.
PhaseColumns ==
    { c \in Columns :
        /\ c[1] = "A" /\ c[3] # Gap /\ c[4] # Gap
        /\ \/ c[2] = "C"
           \/ c[2] \in {"A", Gap} /\ c[3] = "A" /\ c[4] = "A" }

\* The short alignments, over every column pattern.
ShortAlignments == UNION { [1..n -> Columns] : n \in 0..MaxLen }

\* The alignments explored, each a sequence of columns.
Alignments ==
    ShortAlignments \cup UNION { [1..n -> PhaseColumns] : n \in 0..MaxLongLen }

\* ------------------------------------------------------------------- state
VARIABLES
    true_one, true_two, test_one, test_two,        \* the four aligned sequences
    i,                                             \* loop variable of the column loop
    test_one_id, test_two_id,                      \* 0 unset, 1 matches true_one, 2 matches true_two
    test_one_switches, test_two_switches,
    test_one_false_snps, test_two_false_snps,
    test_one_false_indels, test_two_false_indels,
    test_one_bad_calls, test_two_bad_calls,
    pc,                                            \* where main is: "getopt", "opened", "loop", "done" (returned), "crashed"
    args, optind,                                  \* the options of the command line; the next one getopt_long looks at
    has_path, file_opens,                          \* a path follows the options; the file can be opened
    helpflag, position_output_flag, true_prefix,   \* set by the argument parsing
    stream, file,                                  \* state of input_alignment; the lines read from it so far
    record_num,
    true_one_header, true_two_header, test_one_header, test_two_header,
    out, err,                                      \* lines written to cout and to cerr
    exit_code,                                     \* value returned by main; NoExit while it runs
    beyond,                                        \* what reads past the terminator of true_two, test_one, test_two yield at column i+1
    overread,                                      \* which sequences the loop has read at or beyond their length
    first                                          \* one record of what an earlier run on the same sequences ended with; NoRun if none

seqs == <<true_one, true_two, test_one, test_two>>
ids == <<test_one_id, test_two_id>>
switches == <<test_one_switches, test_two_switches>>
false_snps == <<test_one_false_snps, test_two_false_snps>>
false_indels == <<test_one_false_indels, test_two_false_indels>>
bad_calls == <<test_one_bad_calls, test_two_bad_calls>>
counters == <<switches, false_snps, false_indels, bad_calls>>
headers == <<true_one_header, true_two_header, test_one_header, test_two_header>>
cli == <<args, optind, has_path, file_opens, helpflag, position_output_flag, true_prefix>>
loader == <<stream, file, record_num, headers>>
\* What the column loop neither reads (but for the flag) nor writes.
setup == <<cli, loader, err, exit_code, first>>
memory == <<beyond, overread>>
vars == <<seqs, i, ids, counters, pc, setup, out, memory>>

\* exit_code while main has not returned.
NoExit == -1

\* The terminator std::string keeps after its last character: s[s.size()].
Nul == "nul"

\* first while no earlier run has ended.
NoRun == <<>>

\* A line of output: its text and the number printed after it.
Line(text, n) == <<text, n>>

\* Values of the variables the column loop does not write, at its entry, after
\* a load that went well; flag is the value of position_output_flag.
LoopEntry(flag) ==
    /\ args = <<>> /\ optind = 1 /\ has_path = TRUE /\ file_opens = TRUE
    /\ helpflag = 0 /\ position_output_flag = flag /\ true_prefix = <<>>
    /\ stream = "eof" /\ file = <<>> /\ record_num = 0
    /\ true_one_header = <<>> /\ true_two_header = <<>>
    /\ test_one_header = <<>> /\ test_two_header = <<>>
    /\ out = <<>> /\ err = <<>>
    /\ exit_code = NoExit
    /\ first = NoRun
    /\ beyond = <<Nul, Nul, Nul>> /\ overread = {}
    /\ pc = "loop"

\* The alignment entering the column loop, a sequence of columns.
Loaded(cols) ==
    /\ true_one = [k \in DOMAIN cols |-> cols[k][1]]
    /\ true_two = [k \in DOMAIN cols |-> cols[k][2]]
    /\ test_one = [k \in DOMAIN cols |-> cols[k][3]]
    /\ test_two = [k \in DOMAIN cols |-> cols[k][4]]

\* The initializers of the loop's variables.
Initializers ==
    /\ i = 0
    /\ test_one_id = 0 /\ test_two_id = 0
    /\ test_one_switches = 0 /\ test_two_switches = 0
    /\ test_one_false_snps = 0 /\ test_two_false_snps = 0
    /\ test_one_false_indels = 0 /\ test_two_false_indels = 0
    /\ test_one_bad_calls = 0 /\ test_two_bad_calls = 0

\* State when the column loop is entered: the sequences are loaded, the
\* identities and counters still hold their initializers, and
\* position_output_flag holds its own (no -o on the command line).
Init ==
    /\ \E cols \in Alignments : Loaded(cols)
    /\ Initializers
    /\ LoopEntry(0)

\* -------------------------------------------------- classification of column
\* Variant of InLoop: the loop stops at the end of the shortest sequence.
InLoopShortest ==
    /\ pc = "loop"
    /\ i < Len(true_one) /\ i < Len(true_two)
    /\ i < Len(test_one) /\ i < Len(test_two)

\* for (size_t i = 0; i < true_one.length(); i++)
InLoop == pc = "loop" /\ i < Len(true_one)

\* s[k] of a std::string, k counted from 1: a character of s, the terminator
\* right after the last one, and past it whatever lies there, g.
CharAt(s, k, g) ==
    IF k <= Len(s) THEN s[k] ELSE IF k = Len(s) + 1 THEN Nul ELSE g

\* true_two[i], test_one[i], test_two[i] at column k = i + 1; the loop bounds i
\* by true_one.length() alone.
true_two_at(k) == CharAt(true_two, k, beyond[1])
test_one_at(k) == CharAt(test_one, k, beyond[2])
test_two_at(k) == CharAt(test_two, k, beyond[3])

\* true_one[i] == true_two[i]
Homozygous(k) == true_one[k] = true_two_at(k)

\* true_one[i] != '-' && true_two[i] != '-', in the else of Homozygous
HetSNP(k) == ~Homozygous(k) /\ true_one[k] # Gap /\ true_two_at(k) # Gap

\* the else of HetSNP, in the else of Homozygous
HetIndel(k) == ~Homozygous(k) /\ ~(true_one[k] # Gap /\ true_two_at(k) # Gap)

\* ------------------------------------------------------- per-haplotype checks
\* Variant of TestOneIdAfter: a bad call forgets the identity.
TestOneIdAfterResetOnBadCall(k) ==
    IF test_one_at(k) = true_one[k] THEN 1
    ELSE IF test_one_at(k) = true_two_at(k) THEN 2
    ELSE 0

\* Heterozygous SNP, first test haplotype: the new identity.
TestOneIdAfter(k) ==
    IF test_one_at(k) = true_one[k] THEN 1
    ELSE IF test_one_at(k) = true_two_at(k) THEN 2
    ELSE test_one_id

\* Variant of TestOneSwitch: any identity other than the matched one counts,
\* the unset one too.
TestOneSwitchFromUnset(k) ==
    IF test_one_at(k) = true_one[k] THEN (IF test_one_id # 1 THEN 1 ELSE 0)
    ELSE IF test_one_at(k) = true_two_at(k) THEN (IF test_one_id # 2 THEN 1 ELSE 0)
    ELSE 0

\* Heterozygous SNP, first test haplotype: 1 when a phase switch is counted.
TestOneSwitch(k) ==
    IF test_one_at(k) = true_one[k] THEN (IF test_one_id = 2 THEN 1 ELSE 0)
    ELSE IF test_one_at(k) = true_two_at(k) THEN (IF test_one_id = 1 THEN 1 ELSE 0)
    ELSE 0

\* Variant of TestOneBadCall: the final else hangs on the second if alone, so
\* a match of true_one is a bad call too.
TestOneBadCallDanglingElse(k) ==
    IF test_one_at(k) = true_two_at(k) THEN 0 ELSE 1

\* Heterozygous SNP, first test haplotype: 1 when a bad call is counted.
TestOneBadCall(k) ==
    IF test_one_at(k) = true_one[k] THEN 0
    ELSE IF test_one_at(k) = true_two_at(k) THEN 0
    ELSE 1

\* Heterozygous SNP, second test haplotype: the new identity.
TestTwoIdAfter(k) ==
    IF test_two_at(k) = true_one[k] THEN 1
    ELSE IF test_two_at(k) = true_two_at(k) THEN 2
    ELSE test_two_id

\* Heterozygous SNP, second test haplotype: 1 when a phase switch is counted.
TestTwoSwitch(k) ==
    IF test_two_at(k) = true_one[k] THEN (IF test_two_id = 2 THEN 1 ELSE 0)
    ELSE IF test_two_at(k) = true_two_at(k) THEN (IF test_two_id = 1 THEN 1 ELSE 0)
    ELSE 0

\* Variant of TestTwoBadCall: the second haplotype is looked at only when the
\* first one made no bad call (an else-if chain across the two haplotypes).
TestTwoBadCallUnlessOneBad(k) ==
    IF test_one_at(k) # true_one[k] /\ test_one_at(k) # true_two_at(k) THEN 0
    ELSE IF test_two_at(k) = true_one[k] THEN 0
    ELSE IF test_two_at(k) = true_two_at(k) THEN 0
    ELSE 1

\* Heterozygous SNP, second test haplotype: 1 when a bad call is counted.
TestTwoBadCall(k) ==
    IF test_two_at(k) = true_one[k] THEN 0
    ELSE IF test_two_at(k) = true_two_at(k) THEN 0
    ELSE 1

\* Variant of FalseIndelOne: the haplotype carrying the gap is charged.
FalseIndelOneGapSide(k) == IF test_one_at(k) = Gap THEN 1 ELSE 0

\* Homozygous site with a gap in a test haplotype: the increments of the two
\* false-indel counters (two independent ifs).
FalseIndelOne(k) == IF test_one_at(k) # Gap THEN 1 ELSE 0
FalseIndelTwo(k) == IF test_two_at(k) # Gap THEN 1 ELSE 0

\* Variant of FalseSNPTwo: an if of its own instead of the else.
FalseSNPTwoOwnCheck(k) == IF test_two_at(k) # true_one[k] THEN 1 ELSE 0

\* Variant of FalseSNPOne: the increment sits inside the
\* if (position_output_flag) block.
FalseSNPOneOnlyTraced(k) ==
    IF position_output_flag # 0 /\ test_one_at(k) # true_one[k] THEN 1 ELSE 0

\* Homozygous site, test bases without gap and different: the increments of
\* the two false-SNP counters (if / else).
FalseSNPOne(k) == IF test_one_at(k) # true_one[k] THEN 1 ELSE 0
FalseSNPTwo(k) == IF test_one_at(k) # true_one[k] THEN 0 ELSE 1

\* Variant of IndelFalseSNPOne: one charge per true base the test base
\* differs from (two ifs in place of the conjunction).
IndelFalseSNPOnePerTrueBase(k) ==
    (IF test_one_at(k) # true_one[k] THEN 1 ELSE 0)
        + (IF test_one_at(k) # true_two_at(k) THEN 1 ELSE 0)

\* Variant of IndelFalseSNPTwo: an if of its own instead of the else-if.
IndelFalseSNPTwoOwnCheck(k) ==
    IF test_two_at(k) # true_one[k] /\ test_two_at(k) # true_two_at(k) THEN 1 ELSE 0

\* Indel: the increments of the two false-SNP counters (if / else if).
IndelFalseSNPOne(k) ==
    IF test_one_at(k) # true_one[k] /\ test_one_at(k) # true_two_at(k) THEN 1 ELSE 0
IndelFalseSNPTwo(k) ==
    IF test_one_at(k) # true_one[k] /\ test_one_at(k) # true_two_at(k) THEN 0
    ELSE IF test_two_at(k) # true_one[k] /\ test_two_at(k) # true_two_at(k) THEN 1
    ELSE 0

\* ------------------------------------------------------------ output lines
\* if (position_output_flag) cout << ... : the lines reach cout only with the
\* flag set.
Trace(lines) == IF position_output_flag # 0 THEN lines ELSE <<>>

\* The line that goes with an increment, when the increment is made.
Say(n, line) == IF n = 1 THEN <<line>> ELSE <<>>

FalseIndelLines(k) ==
    Say(FalseIndelOne(k), Line("False indel at position ", k))
        \o Say(FalseIndelTwo(k), Line("False indel at position ", k))

FalseSNPLines(k) ==
    Say(FalseSNPOne(k), Line("False SNP at position ", k))
        \o Say(FalseSNPTwo(k), Line("False SNP at position ", k))

TestOneLines(k) ==
    Say(TestOneSwitch(k), Line("Test haplotype 1 switches at position ", k))
        \o Say(TestOneBadCall(k),
               Line("Test haplotype 1 doesn't match either true haplotype at position ", k))

\* Variant of TestTwoLines: the 0-based index is printed.
TestTwoLinesZeroBased(k) ==
    Say(TestTwoSwitch(k), Line("Test haplotype 2 switches at position ", k - 1))
        \o Say(TestTwoBadCall(k),
               Line("Test haplotype 2 doesn't match either true haplotype at position ", k - 1))

TestTwoLines(k) ==
    Say(TestTwoSwitch(k), Line("Test haplotype 2 switches at position ", k))
        \o Say(TestTwoBadCall(k),
               Line("Test haplotype 2 doesn't match either true haplotype at position ", k))

IndelLines(k) ==
    <<Line("True indel at position ", k)>>
        \o Say(IndelFalseSNPOne(k),
               Line("False SNP due to test haplotype 1 at position ", k))
        \o Say(IndelFalseSNPTwo(k),
               Line("False SNP due to test haplotype 2 at position ", k))

\* The eight lines of results.
Summary ==
    << Line("Haplotype switches for test haplotype 1: ", test_one_switches),
       Line("Haplotype switches for test haplotype 2: ", test_two_switches),
       Line("False SNPs in haplotype 1: ", test_one_false_snps),
       Line("False SNPs in haplotype 2: ", test_two_false_snps),
       Line("False indels in haplotype 1: ", test_one_false_indels),
       Line("False indels in haplotype 2: ", test_two_false_indels),
       Line("Bad base calls in haplotype 1: ", test_one_bad_calls),
       Line("Bad base calls in haplotype 2: ", test_two_bad_calls) >>

\* ------------------------------------------------------------ reads
\* What a read past the terminator may find: a base of the alignment, the gap
\* symbol, a zero byte or any other byte.
Garbage == {"A", "C", Gap, Nul, "?"}

\* The sequences read at [i] besides true_one, in the order the loop reads
\* them first: 1 true_two (line 162), 2 test_one (163, 192 or 242), 3 test_two
\* (163 or 170, 215, 247).  test_two is not read at an indel whose first
\* condition (line 242) holds: the else if is skipped.
Reads(k) ==
    IF HetIndel(k) /\ IndelFalseSNPOne(k) = 1 THEN {1, 2} ELSE {1, 2, 3}

Length(n) == Len(<<true_two, test_one, test_two>>[n])

\* The sequences read at column k at an index at or beyond their length, and
\* those read past their terminator.
Overread(k) == { n \in Reads(k) : k > Length(n) }
PastTerminator(k) == { n \in Reads(k) : k > Length(n) + 1 }

\* What reads past the terminators yield at column k; Nul where column k lies
\* within the sequence or on its terminator, and when there is no column k.
GarbledAt(n, k) ==
    IF k <= Len(true_one) /\ k > Length(n) + 1 THEN Garbage ELSE {Nul}

Garbled(k) ==
    { <<a, b, c>> : a \in GarbledAt(1, k), b \in GarbledAt(2, k),
                    c \in GarbledAt(3, k) }

\* Column i + 1 has been read; the next one is read from what lies there then.
ReadColumn ==
    /\ overread' = overread \cup Overread(i + 1)
    /\ beyond' \in Garbled(i + 2)

\* A read past the terminator of sequence n ends the process, which never
\* returns from main; the sequences read before it in column i + 1 have been
\* read.  Nothing is read after it.
Crash ==
    /\ InLoop
    /\ \E n \in PastTerminator(i + 1) :
          overread' = overread \cup { m \in Overread(i + 1) : m <= n }
    /\ beyond' = <<Nul, Nul, Nul>>
    /\ pc' = "crashed"
    /\ UNCHANGED <<seqs, i, ids, counters, setup, out>>

\* ------------------------------------------------------------------ actions
\* Homozygous site, test_one[i] == '-' || test_two[i] == '-'
FalseIndel ==
    /\ InLoop
    /\ Homozygous(i + 1)
    /\ test_one_at(i + 1) = Gap \/ test_two_at(i + 1) = Gap
    /\ test_one_false_indels' = test_one_false_indels + FalseIndelOne(i + 1)
    /\ test_two_false_indels' = test_two_false_indels + FalseIndelTwo(i + 1)
    /\ i' = i + 1
    /\ ReadColumn
    /\ out' = out \o Trace(FalseIndelLines(i + 1))
    /\ UNCHANGED <<seqs, ids, switches, false_snps, bad_calls, pc, setup>>

\* Homozygous site, no gap in the test bases, test_one[i] != test_two[i]
FalseSNP ==
    /\ InLoop
    /\ Homozygous(i + 1)
    /\ ~(test_one_at(i + 1) = Gap \/ test_two_at(i + 1) = Gap)
    /\ test_one_at(i + 1) # test_two_at(i + 1)
    /\ test_one_false_snps' = test_one_false_snps + FalseSNPOne(i + 1)
    /\ test_two_false_snps' = test_two_false_snps + FalseSNPTwo(i + 1)
    /\ i' = i + 1
    /\ ReadColumn
    /\ out' = out \o Trace(FalseSNPLines(i + 1))
    /\ UNCHANGED <<seqs, ids, switches, false_indels, bad_calls, pc, setup>>

\* Variant of HomozygousAgree: agreeing test bases that differ from the true
\* base are charged a false SNP each.
HomozygousAgreeFlagsMismatch ==
    /\ InLoop
    /\ Homozygous(i + 1)
    /\ ~(test_one_at(i + 1) = Gap \/ test_two_at(i + 1) = Gap)
    /\ ~(test_one_at(i + 1) # test_two_at(i + 1))
    /\ test_one_false_snps' = test_one_false_snps +
          (IF test_one_at(i + 1) # true_one[i + 1] THEN 1 ELSE 0)
    /\ test_two_false_snps' = test_two_false_snps +
          (IF test_two_at(i + 1) # true_one[i + 1] THEN 1 ELSE 0)
    /\ i' = i + 1
    /\ ReadColumn
    /\ out' = out
    /\ UNCHANGED <<seqs, ids, switches, false_indels, bad_calls, pc, setup>>

\* Homozygous site, no gap in the test bases, test_one[i] == test_two[i]:
\* neither branch of the if / else if is taken.
HomozygousAgree ==
    /\ InLoop
    /\ Homozygous(i + 1)
    /\ ~(test_one_at(i + 1) = Gap \/ test_two_at(i + 1) = Gap)
    /\ ~(test_one_at(i + 1) # test_two_at(i + 1))
    /\ i' = i + 1
    /\ ReadColumn
    /\ out' = out
    /\ UNCHANGED <<seqs, ids, counters, pc, setup>>

\* Variant of HeterozygousSNP: a gap in a test haplotype is also charged as a
\* false indel.
HeterozygousSNPGapIsIndel ==
    /\ InLoop
    /\ HetSNP(i + 1)
    /\ test_one_switches' = test_one_switches + TestOneSwitch(i + 1)
    /\ test_one_bad_calls' = test_one_bad_calls + TestOneBadCall(i + 1)
    /\ test_one_id' = TestOneIdAfter(i + 1)
    /\ test_two_switches' = test_two_switches + TestTwoSwitch(i + 1)
    /\ test_two_bad_calls' = test_two_bad_calls + TestTwoBadCall(i + 1)
    /\ test_two_id' = TestTwoIdAfter(i + 1)
    /\ test_one_false_indels' = test_one_false_indels +
          (IF test_one_at(i + 1) = Gap THEN 1 ELSE 0)
    /\ test_two_false_indels' = test_two_false_indels +
          (IF test_two_at(i + 1) = Gap THEN 1 ELSE 0)
    /\ i' = i + 1
    /\ ReadColumn
    /\ out' = out \o Trace(TestOneLines(i + 1) \o TestTwoLines(i + 1))
    /\ UNCHANGED <<seqs, false_snps, pc, setup>>

\* Heterozygous SNP: both test haplotypes are checked, one after the other.
HeterozygousSNP ==
    /\ InLoop
    /\ HetSNP(i + 1)
    /\ test_one_switches' = test_one_switches + TestOneSwitch(i + 1)
    /\ test_one_bad_calls' = test_one_bad_calls + TestOneBadCall(i + 1)
    /\ test_one_id' = TestOneIdAfter(i + 1)
    /\ test_two_switches' = test_two_switches + TestTwoSwitch(i + 1)
    /\ test_two_bad_calls' = test_two_bad_calls + TestTwoBadCall(i + 1)
    /\ test_two_id' = TestTwoIdAfter(i + 1)
    /\ i' = i + 1
    /\ ReadColumn
    /\ out' = out \o Trace(TestOneLines(i + 1) \o TestTwoLines(i + 1))
    /\ UNCHANGED <<seqs, false_snps, false_indels, pc, setup>>

\* Variant of Indel: the identities follow the test bases as at a SNP.
IndelTracksPhase ==
    /\ InLoop
    /\ HetIndel(i + 1)
    /\ test_one_false_snps' = test_one_false_snps + IndelFalseSNPOne(i + 1)
    /\ test_two_false_snps' = test_two_false_snps + IndelFalseSNPTwo(i + 1)
    /\ test_one_id' = TestOneIdAfter(i + 1)
    /\ test_two_id' = TestTwoIdAfter(i + 1)
    /\ i' = i + 1
    /\ ReadColumn
    /\ out' = out \o Trace(IndelLines(i + 1))
    /\ UNCHANGED <<seqs, switches, false_indels, bad_calls, pc, setup>>

\* Indel: a true base is the gap symbol.
Indel ==
    /\ InLoop
    /\ HetIndel(i + 1)
    /\ test_one_false_snps' = test_one_false_snps + IndelFalseSNPOne(i + 1)
    /\ test_two_false_snps' = test_two_false_snps + IndelFalseSNPTwo(i + 1)
    /\ i' = i + 1
    /\ ReadColumn
    /\ out' = out \o Trace(IndelLines(i + 1))
    /\ UNCHANGED <<seqs, ids, switches, false_indels, bad_calls, pc, setup>>

\* Variant of Output: main returns 1 when a bad call was counted.
OutputReturnsFindings ==
    /\ pc = "loop"
    /\ ~InLoop
    /\ out' = out \o Summary
    /\ exit_code' =
          IF test_one_bad_calls + test_two_bad_calls > 0 THEN 1 ELSE 0
    /\ pc' = "done"
    /\ UNCHANGED <<seqs, i, ids, counters, cli, loader, err, first, memory>>

\* The loop condition fails: the results are output and main returns 0.
Output ==
    /\ pc = "loop"
    /\ ~InLoop
    /\ out' = out \o Summary
    /\ exit_code' = 0
    /\ pc' = "done"
    /\ UNCHANGED <<seqs, i, ids, counters, cli, loader, err, first, memory>>

Next ==
    \/ FalseIndel
    \/ FalseSNP
    \/ HomozygousAgree
    \/ HeterozygousSNP
    \/ Indel
    \/ Output

Spec == Init /\ [][Next]_vars

\* The column loop with position_output_flag either way (-o given or not),
\* over the short alignments.
InitOut ==
    /\ \E cols \in ShortAlignments : Loaded(cols)
    /\ Initializers
    /\ \E flag \in {0, 1} : LoopEntry(flag)

SpecOut == InitOut /\ [][Next]_vars

\* The program is run a second time on the same four sequences, with
\* position_output_flag either way: a new process, whose variables hold the
\* initializers again.  What the first run ended with is kept in first.
Rerun ==
    /\ pc = "done" /\ exit_code = 0 /\ first = NoRun
    /\ first' = <<[flag |-> position_output_flag, counters |-> counters, ids |-> ids]>>
    /\ i' = 0
    /\ test_one_id' = 0 /\ test_two_id' = 0
    /\ test_one_switches' = 0 /\ test_two_switches' = 0
    /\ test_one_false_snps' = 0 /\ test_two_false_snps' = 0
    /\ test_one_false_indels' = 0 /\ test_two_false_indels' = 0
    /\ test_one_bad_calls' = 0 /\ test_two_bad_calls' = 0
    /\ \E flag \in {0, 1} : position_output_flag' = flag
    /\ out' = <<>>
    /\ exit_code' = NoExit
    /\ pc' = "loop"
    /\ beyond' = <<Nul, Nul, Nul>> /\ overread' = {}
    /\ UNCHANGED <<seqs, args, optind, has_path, file_opens, helpflag,
                   true_prefix, loader, err>>

\* Alignments for the two runs: every single column, and the longer
\* alignments over the phase columns.
RerunAlignments ==
    UNION { [1..n -> Columns] : n \in 0..(MaxLen - 1) }
        \cup UNION { [1..n -> PhaseColumns] : n \in 0..MaxLongLen }

InitRerun ==
    /\ \E cols \in RerunAlignments : Loaded(cols)
    /\ Initializers
    /\ \E flag \in {0, 1} : LoopEntry(flag)

NextRerun == Next \/ Rerun

SpecRerun == InitRerun /\ [][NextRerun]_vars

\* The column loop entered with sequences of unequal lengths, as a file with
\* unequal or missing records leaves them: an alignment over the columns
\* below, each of its four rows cut to a length of its own.
RaggedColumns ==
    { <<"A", "A", "A", "A">>, <<"A", "A", Gap, "A">>, <<"A", "A", "A", "C">>,
      <<"A", "C", "A", "C">>, <<"A", Gap, "C", "A">>, <<"A", Gap, "A", "A">> }

RaggedAlignments == UNION { [1..n -> RaggedColumns] : n \in 0..MaxLen }

Row(cols, r, n) == SubSeq([k \in DOMAIN cols |-> cols[k][r]], 1, n)

InitRagged ==
    /\ \E cols \in RaggedAlignments :
         \E cut \in [1..4 -> 0..Len(cols)] :
            /\ true_one = Row(cols, 1, cut[1])
            /\ true_two = Row(cols, 2, cut[2])
            /\ test_one = Row(cols, 3, cut[3])
            /\ test_two = Row(cols, 4, cut[4])
    /\ Initializers
    /\ LoopEntry(0)

NextRagged == Next \/ Crash

SpecRagged == InitRagged /\ [][NextRagged]_vars

\* ------------------------------------------------------------ the whole of main
\* The options a command line is made of.  "-p T" gives the prefix T; "-p" is
\* the option without its argument, which only the last option can be; "-x"
\* is an option getopt_long does not know.
Options == {"-h", "--help", "-o", "--position_output", "-p T", "-p", "-x"}

ArgLists ==
    { a \in UNION { [1..n -> Options] : n \in 0..MaxArgs } :
        \A k \in 1..(Len(a) - 1) : a[k] # "-p" }

\* optarg == 0
NoArg == "null"

\* What getopt_long(argc, argv, "hop:", long_options, &optindex) returns for
\* an option, as a string: "0" for a long option that sets a flag, the option character for
\* -h, -o and -p (and --true_prefix), '?' for an unknown option and for -p
\* without its argument.
OptValue(opt) ==
    CASE opt \in {"--help", "--position_output"} -> "0"
      [] opt = "-h" -> "h"
      [] opt = "-o" -> "o"
      [] opt = "-p T" -> "p"
      [] OTHER -> "?"

\* optarg after getopt_long returned 'p'.
OptArg(opt) == IF opt = "-p T" THEN <<"T">> ELSE NoArg

\* helpflag after one turn of the switch: --help sets it through
\* long_options, case 'h' sets 1, case 'p' sets 3 when optarg is null,
\* default sets 4.
HelpflagAfter(opt) ==
    CASE opt = "--help" -> 1
      [] OptValue(opt) = "0" -> helpflag
      [] OptValue(opt) = "h" -> 1
      [] OptValue(opt) = "o" -> helpflag
      [] OptValue(opt) = "p" -> IF OptArg(opt) = NoArg THEN 3 ELSE helpflag
      [] OTHER -> 4

\* One turn of the while loop around getopt_long.
GetOpt ==
    /\ pc = "getopt"
    /\ optind <= Len(args)
    /\ LET opt == args[optind] IN
         /\ helpflag' = HelpflagAfter(opt)
         /\ position_output_flag' =
               IF opt = "--position_output" \/ OptValue(opt) = "o"
               THEN 1 ELSE position_output_flag
         /\ true_prefix' =
               IF OptValue(opt) = "p" /\ OptArg(opt) # NoArg
               THEN OptArg(opt) ELSE true_prefix
         /\ err' =
               IF OptValue(opt) = "?"
               THEN Append(err, "Invalid argument") ELSE err
    /\ optind' = optind + 1
    /\ UNCHANGED <<seqs, i, ids, counters, pc, args, has_path, file_opens,
                   loader, exit_code, first, out, memory>>

\* helpflag after the file is opened, or is not.
HelpflagOpened ==
    IF has_path THEN (IF file_opens THEN helpflag ELSE 5) ELSE 6

\* getopt_long returned -1: the non-option argument is opened.
OpenInput ==
    /\ pc = "getopt"
    /\ ~(optind <= Len(args))
    /\ helpflag' = HelpflagOpened
    /\ stream' = IF has_path THEN (IF file_opens THEN "good" ELSE "fail")
                 ELSE stream
    /\ err' = IF has_path
              THEN (IF file_opens THEN err
                    ELSE Append(err, "Unable to open input alignment file."))
              ELSE Append(err, "Missing input alignment file path.")
    /\ pc' = "opened"
    /\ UNCHANGED <<seqs, i, ids, counters, args, optind, has_path, file_opens,
                   position_output_flag, true_prefix, file, record_num,
                   headers, exit_code, first, out, memory>>

UsageLines ==
    << <<"Usage: ">>, <<" p">>, <<" input_alignment.fa">> >>

\* if (helpflag): the usage is output and main returns helpflag.
Usage ==
    /\ pc = "opened"
    /\ helpflag # 0
    /\ out' = out \o UsageLines
    /\ exit_code' = helpflag
    /\ pc' = "done"
    /\ UNCHANGED <<seqs, i, ids, counters, cli, loader, err, first, memory>>

\* The lines a file is made of: headers that carry T, that do not, and an
\* empty one; one-base sequence lines.  The empty line is what getline leaves
\* in line_buffer when it meets the end of the file at once.
Lines == { <<">", "T">>, <<">", "x">>, <<">">>, <<"A">>, <<"C">> }

\* line_buffer[0] == '>'
IsHeader(line) == CharAt(line, 1, Nul) = ">"

\* line_buffer.find(prefix, 1) != string::npos
Find(line, prefix) ==
    \E p \in 2..(Len(line) - Len(prefix) + 1) :
        SubSeq(line, p, p + Len(prefix) - 1) = prefix

\* line_buffer.substr(1)
Substr(line) == SubSeq(line, 2, Len(line))

\* record_num after a header line.
RecordNumAfter(line) ==
    IF Find(line, true_prefix)
    THEN (IF true_one_header = <<>> THEN 1 ELSE 2)
    ELSE (IF test_one_header = <<>> THEN 3 ELSE 4)

\* The header line is kept in the header the branch names.
HeaderLine(line) ==
    /\ record_num' = RecordNumAfter(line)
    /\ true_one_header' =
          IF RecordNumAfter(line) = 1 THEN Substr(line) ELSE true_one_header
    /\ true_two_header' =
          IF RecordNumAfter(line) = 2 THEN Substr(line) ELSE true_two_header
    /\ test_one_header' =
          IF RecordNumAfter(line) = 3 THEN Substr(line) ELSE test_one_header
    /\ test_two_header' =
          IF RecordNumAfter(line) = 4 THEN Substr(line) ELSE test_two_header
    /\ UNCHANGED seqs

\* switch (record_num): the line is appended to the record being read.
FastaLine(line) ==
    /\ true_one' = IF record_num = 1 THEN true_one \o line ELSE true_one
    /\ true_two' = IF record_num = 2 THEN true_two \o line ELSE true_two
    /\ test_one' = IF record_num = 3 THEN test_one \o line ELSE test_one
    /\ test_two' = IF record_num = 4 THEN test_two \o line ELSE test_two
    /\ UNCHANGED <<record_num, headers>>

\* One turn of while (input_alignment.good()): getline reads a line and
\* leaves the stream good, at the end of the file (a last line without a
\* newline, or no line at all) or bad (a read error, after some or none of a
\* line); the line is then taken as a header or as a sequence line.
ReadLine ==
    /\ pc = "opened"
    /\ helpflag = 0
    /\ stream = "good"
    /\ Len(file) < MaxLines
    /\ \E after \in {"good", "eof", "bad"} :
         \E line \in Lines \cup (IF after = "good" THEN {} ELSE {<<>>}) :
            /\ after = "good" => Len(file) + 1 < MaxLines
            /\ stream' = after
            /\ file' = Append(file, line)
            /\ IF IsHeader(line) THEN HeaderLine(line) ELSE FastaLine(line)
    /\ UNCHANGED <<i, ids, counters, pc, cli, err, exit_code, first, out,
                   memory>>

\* if (!input_alignment.eof()): the loop was not left at the end of the file.
ReadFailed ==
    /\ pc = "opened"
    /\ helpflag = 0
    /\ stream = "bad"
    /\ err' = Append(err, "An error occurred while reading the input alignment file.")
    /\ exit_code' = 7
    /\ pc' = "done"
    /\ UNCHANGED <<seqs, i, ids, counters, cli, loader, first, out, memory>>

\* input_alignment.close() after a whole file: the column loop is next.
CloseInput ==
    /\ pc = "opened"
    /\ helpflag = 0
    /\ stream = "eof"
    /\ pc' = "loop"
    /\ UNCHANGED <<seqs, i, ids, counters, setup, out, memory>>

\* main is entered: a command line, a path or none, a file that opens or not.
InitMain ==
    /\ args \in ArgLists /\ optind = 1
    /\ has_path \in BOOLEAN /\ file_opens \in BOOLEAN
    /\ has_path \/ ~file_opens
    /\ helpflag = 0 /\ position_output_flag = 0 /\ true_prefix = <<>>
    /\ stream = "closed" /\ file = <<>> /\ record_num = 0
    /\ true_one_header = <<>> /\ true_two_header = <<>>
    /\ test_one_header = <<>> /\ test_two_header = <<>>
    /\ true_one = <<>> /\ true_two = <<>>
    /\ test_one = <<>> /\ test_two = <<>>
    /\ Initializers
    /\ out = <<>> /\ err = <<>>
    /\ exit_code = NoExit
    /\ first = NoRun
    /\ beyond = <<Nul, Nul, Nul>> /\ overread = {}
    /\ pc = "getopt"

NextMain ==
    \/ GetOpt
    \/ OpenInput
    \/ Usage
    \/ ReadLine
    \/ ReadFailed
    \/ CloseInput
    \/ Next
    \/ Crash

SpecMain == InitMain /\ [][NextMain]_vars

\* ------------------------------------------------------------ shorthands
\* The test base at column k equals neither true base.
MatchesNeither(test, k) == test[k] # true_one[k] /\ test[k] # true_two[k]

AllCountersZero ==
    /\ test_one_switches = 0 /\ test_two_switches = 0
    /\ test_one_false_snps = 0 /\ test_two_false_snps = 0
    /\ test_one_false_indels = 0 /\ test_two_false_indels = 0
    /\ test_one_bad_calls = 0 /\ test_two_bad_calls = 0

\* ----------------------------------------------------------------- C1
\* Heterozygous SNP columns among the first n at which the test haplotype
\* matches one of the two true bases.
MatchColumns(test, n) ==
    { k \in 1..n : HetSNP(k) /\ ~MatchesNeither(test, k) }

\* The true haplotype (1 or 2) the test haplotype matches at column k.
MatchedAt(test, k) == IF test[k] = true_one[k] THEN 1 ELSE 2

\* Matching columns whose match differs from the match at the most recent
\* earlier matching column; a first matching column has no earlier one.
SwitchColumns(test) ==
    { k \in MatchColumns(test, Len(true_one)) :
        /\ MatchColumns(test, k - 1) # {}
        /\ MatchedAt(test, Max(MatchColumns(test, k - 1))) # MatchedAt(test, k) }

\* C1: after the full pass each test haplotype's switch count is the number of
\* heterozygous SNP columns at which it matches one true base while at its most
\* recent earlier matching heterozygous SNP column it matched the other one;
\* columns in between (homozygous, indel, bad call) do not reset the comparison
\* and the first matching column is never counted.
C1_SwitchCountIsSwitchColumns ==
    pc = "done" =>
        /\ test_one_switches = Cardinality(SwitchColumns(test_one))
        /\ test_two_switches = Cardinality(SwitchColumns(test_two))

\* A finished pass over three columns: test_one matches true_one, then makes a
\* bad call, then matches true_two, and one switch is counted across the bad
\* call; test_two changes its match at the second and at the third column
\* and has two switches, its first match counting for none.
C1_Witness ==
    /\ pc = "done" /\ Len(true_one) = 3
    /\ HetSNP(1) /\ test_one[1] = true_one[1]
    /\ HetSNP(2) /\ MatchesNeither(test_one, 2)
    /\ HetSNP(3) /\ test_one[3] = true_two[3]
    /\ test_one_switches = 1 /\ test_one_bad_calls = 1
    /\ test_two_switches = 2

\* ----------------------------------------------------------------- C2
\* C2: a test haplotype whose identity is still unset has switch count 0, and
\* the step that takes its identity from unset to 1 or 2 leaves its switch
\* count unchanged, whichever true base it matches.
C2_UnsetNeverSwitches ==
    /\ [](/\ test_one_id = 0 => test_one_switches = 0
          /\ test_two_id = 0 => test_two_switches = 0)
    /\ [][/\ (test_one_id = 0 /\ test_one_id' \in {1, 2})
                => test_one_switches' = test_one_switches
          /\ (test_two_id = 0 /\ test_two_id' \in {1, 2})
                => test_two_switches' = test_two_switches]_vars

\* The second column is the first heterozygous SNP: test_one matched true_two,
\* test_two matched true_one, and no switch was counted.
C2_Witness ==
    /\ i = 2 /\ Homozygous(1) /\ HetSNP(2)
    /\ test_one[2] = true_two[2] /\ test_two[2] = true_one[2]
    /\ test_one_id = 2 /\ test_two_id = 1
    /\ test_one_switches = 0 /\ test_two_switches = 0

\* ----------------------------------------------------------------- C3
\* C3: at a heterozygous SNP column where a test haplotype's base equals
\* neither true base, its bad-call count grows by exactly 1 and its identity,
\* switch count, false-SNP count and false-indel count are unchanged; the
\* other test haplotype is handled by its own base: a match sets its identity
\* and counts no bad call, a mismatch counts its own bad call.
C3_BadCallOnlyCountsBadCall ==
    [][(InLoop /\ HetSNP(i + 1)) =>
        /\ MatchesNeither(test_one, i + 1) =>
              /\ test_one_bad_calls' = test_one_bad_calls + 1
              /\ UNCHANGED <<test_one_id, test_one_switches,
                             test_one_false_snps, test_one_false_indels>>
              /\ IF MatchesNeither(test_two, i + 1)
                    THEN test_two_bad_calls' = test_two_bad_calls + 1
                    ELSE /\ test_two_bad_calls' = test_two_bad_calls
                         /\ test_two_id' = MatchedAt(test_two, i + 1)
        /\ MatchesNeither(test_two, i + 1) =>
              /\ test_two_bad_calls' = test_two_bad_calls + 1
              /\ UNCHANGED <<test_two_id, test_two_switches,
                             test_two_false_snps, test_two_false_indels>>
              /\ IF MatchesNeither(test_one, i + 1)
                    THEN test_one_bad_calls' = test_one_bad_calls + 1
                    ELSE /\ test_one_bad_calls' = test_one_bad_calls
                         /\ test_one_id' = MatchedAt(test_one, i + 1)
      ]_vars

\* test_one matched true_two at the first column and makes a bad call at the
\* second, where test_two switches: test_one keeps identity 2.
C3_Witness ==
    /\ i = 2 /\ HetSNP(1) /\ HetSNP(2)
    /\ test_one[1] = true_two[1] /\ MatchesNeither(test_one, 2)
    /\ test_one_id = 2 /\ test_one_bad_calls = 1 /\ test_one_switches = 0
    /\ test_two_switches = 1 /\ test_two_bad_calls = 0

\* ----------------------------------------------------------------- C4
\* C4: a step that is not the classification of a heterozygous SNP column
\* (a homozygous column in any of its three sub-branches, a heterozygous
\* column with a gap true base) changes neither phase identity.
C4_IdentityOnlyChangesAtHetSNP ==
    [][~(InLoop /\ HetSNP(i + 1)) => UNCHANGED <<test_one_id, test_two_id>>]_vars

\* The identities set at the first column are still there after an indel
\* column and a homozygous column.
C4_Witness ==
    /\ i = 3 /\ HetSNP(1) /\ HetIndel(2) /\ Homozygous(3)
    /\ test_one_id = 2 /\ test_two_id = 1

\* ----------------------------------------------------------------- C5
\* C5: at a homozygous column where at least one test base is the gap symbol,
\* the false-indel count grows by 1 for exactly the test haplotypes whose own
\* base is not a gap while the other's is; when both are gaps no counter
\* changes.
C5_FalseIndelChargesNonGapSide ==
    [][(/\ InLoop /\ Homozygous(i + 1)
        /\ (test_one[i + 1] = Gap \/ test_two[i + 1] = Gap)) =>
        /\ test_one_false_indels' = test_one_false_indels +
              (IF test_one[i + 1] # Gap /\ test_two[i + 1] = Gap THEN 1 ELSE 0)
        /\ test_two_false_indels' = test_two_false_indels +
              (IF test_two[i + 1] # Gap /\ test_one[i + 1] = Gap THEN 1 ELSE 0)
        /\ (test_one[i + 1] = Gap /\ test_two[i + 1] = Gap) => UNCHANGED counters
      ]_vars

\* Two homozygous columns: at the first only test_two has a gap, at the
\* second both have one; test_one alone was charged, once.
C5_Witness ==
    /\ i = 2 /\ Homozygous(1) /\ Homozygous(2)
    /\ test_one[1] # Gap /\ test_two[1] = Gap
    /\ test_one[2] = Gap /\ test_two[2] = Gap
    /\ test_one_false_indels = 1 /\ test_two_false_indels = 0

\* ----------------------------------------------------------------- C6
\* C6: at a homozygous column whose true base is not a gap and where exactly
\* one test haplotype carries the gap symbol, the false indel is charged to
\* the test haplotype that carries the gap, and every counter of the other
\* test haplotype is unchanged.
C6_FalseIndelChargesGapSide ==
    [][(InLoop /\ Homozygous(i + 1) /\ true_one[i + 1] # Gap) =>
        /\ (test_one[i + 1] = Gap /\ test_two[i + 1] # Gap) =>
              /\ test_one_false_indels' = test_one_false_indels + 1
              /\ UNCHANGED <<test_two_switches, test_two_false_snps,
                             test_two_false_indels, test_two_bad_calls>>
        /\ (test_two[i + 1] = Gap /\ test_one[i + 1] # Gap) =>
              /\ test_two_false_indels' = test_two_false_indels + 1
              /\ UNCHANGED <<test_one_switches, test_one_false_snps,
                             test_one_false_indels, test_one_bad_calls>>
      ]_vars

\* ----------------------------------------------------------------- C7
\* C7: at a homozygous column where both test bases are non-gap and differ
\* from each other, exactly one of the two false-SNP counts grows, by exactly
\* 1, and it belongs to a test haplotype whose base differs from true_one[i];
\* a test haplotype whose base equals true_one[i] is never charged; no other
\* counter and neither identity changes.  This includes the columns where
\* both test bases differ from the shared true base.
C7_FalseSNPChargesOneMismatch ==
    [][(/\ InLoop /\ Homozygous(i + 1)
        /\ test_one[i + 1] # Gap /\ test_two[i + 1] # Gap
        /\ test_one[i + 1] # test_two[i + 1]) =>
        /\ \/ /\ test_one_false_snps' = test_one_false_snps + 1
              /\ test_two_false_snps' = test_two_false_snps
              /\ test_one[i + 1] # true_one[i + 1]
           \/ /\ test_two_false_snps' = test_two_false_snps + 1
              /\ test_one_false_snps' = test_one_false_snps
              /\ test_two[i + 1] # true_one[i + 1]
        /\ UNCHANGED <<switches, false_indels, bad_calls, ids>>
      ]_vars

\* A homozygous column follows a heterozygous SNP; both test bases differ from
\* the shared true base and from each other; one false SNP was charged, to
\* test_one, and the identities set at the first column are kept.
C7_Witness ==
    /\ i = 2 /\ HetSNP(1) /\ Homozygous(2)
    /\ test_one[2] # Gap /\ test_two[2] # Gap /\ test_one[2] # test_two[2]
    /\ test_one[2] # true_one[2] /\ test_two[2] # true_one[2]
    /\ test_one_false_snps = 1 /\ test_two_false_snps = 0
    /\ test_one_id = 1 /\ test_two_id = 2

\* ----------------------------------------------------------------- C8
\* C8: at a heterozygous column where at least one true base is the gap
\* symbol, each test haplotype is checked independently: every test haplotype
\* whose base equals neither true base has its false-SNP count grow by 1 (both
\* when both mismatch); switch, bad-call and false-indel counts are unchanged.
C8_IndelChargesEachMismatch ==
    [][(InLoop /\ HetIndel(i + 1)) =>
        /\ test_one_false_snps' = test_one_false_snps +
              (IF MatchesNeither(test_one, i + 1) THEN 1 ELSE 0)
        /\ test_two_false_snps' = test_two_false_snps +
              (IF MatchesNeither(test_two, i + 1) THEN 1 ELSE 0)
        /\ UNCHANGED <<switches, bad_calls, false_indels>>
      ]_vars

\* ----------------------------------------------------------------- C9
\* C9: at a column where true_one[i] = true_two[i] and both test bases are
\* non-gap and equal to each other, none of the eight counters and neither
\* identity changes, also when the shared test base differs from the true
\* base; and a pass over four identical sequences ends with all counters 0.
C9_AgreeingTestBasesChangeNothing ==
    /\ [][(/\ InLoop /\ Homozygous(i + 1)
            /\ test_one[i + 1] # Gap /\ test_two[i + 1] # Gap
            /\ test_one[i + 1] = test_two[i + 1]) =>
              UNCHANGED <<counters, ids>>]_vars
    /\ []((/\ pc = "done"
           /\ true_two = true_one /\ test_one = true_one /\ test_two = true_one)
              => AllCountersZero)

\* After a heterozygous SNP with two bad calls, a homozygous column where the
\* two test bases agree with each other and not with the true base: the
\* counters stand as the first column left them.
C9_Witness ==
    /\ i = 2 /\ HetSNP(1) /\ Homozygous(2)
    /\ test_one[2] # Gap /\ test_one[2] = test_two[2]
    /\ test_one[2] # true_one[2]
    /\ test_one_bad_calls = 1 /\ test_two_bad_calls = 1
    /\ test_one_false_snps = 0 /\ test_two_false_snps = 0
    /\ test_one_false_indels = 0 /\ test_two_false_indels = 0
    /\ test_one_id = 0 /\ test_two_id = 0

\* ---------------------------------------------------------------- C10
\* C10: a false-indel count changes at column i only if true_one[i] =
\* true_two[i] and at least one of test_one[i], test_two[i] is the gap
\* symbol; heterozygous columns and homozygous columns with two non-gap test
\* bases leave both false-indel counts unchanged.
C10_FalseIndelOnlyAtHomozygousGap ==
    [][(\/ test_one_false_indels' # test_one_false_indels
        \/ test_two_false_indels' # test_two_false_indels) =>
        /\ InLoop
        /\ Homozygous(i + 1)
        /\ (test_one[i + 1] = Gap \/ test_two[i + 1] = Gap)
      ]_vars

\* A false indel charged at a homozygous first column; the second column is
\* an indel where test_one carries a gap, and the counts did not move.
C10_Witness ==
    /\ i = 2 /\ Homozygous(1) /\ HetIndel(2)
    /\ test_one[1] # Gap /\ test_two[1] = Gap
    /\ test_one[2] = Gap /\ test_two[2] # Gap
    /\ test_one_false_indels = 1 /\ test_two_false_indels = 0

\* ---------------------------------------------------------------- C11
\* Increment of a counter over a step: 0 or 1.
GrowsByAtMostOne(before, after) == after = before \/ after = before + 1

\* C11: the eight counters start at 0 and both identities start unset; over
\* every step each counter is non-decreasing and grows by at most 1; the
\* columns are classified one by one in increasing order, each exactly once:
\* a step that changes a counter or an identity moves i from a column inside
\* the alignment to the next, and the results are output with i at the
\* length of the alignment.
C11_CountersMonotoneColumnsOnce ==
    /\ [](i = 0 => (AllCountersZero /\ test_one_id = 0 /\ test_two_id = 0))
    /\ [][/\ GrowsByAtMostOne(test_one_switches, test_one_switches')
          /\ GrowsByAtMostOne(test_two_switches, test_two_switches')
          /\ GrowsByAtMostOne(test_one_false_snps, test_one_false_snps')
          /\ GrowsByAtMostOne(test_two_false_snps, test_two_false_snps')
          /\ GrowsByAtMostOne(test_one_false_indels, test_one_false_indels')
          /\ GrowsByAtMostOne(test_two_false_indels, test_two_false_indels')
          /\ GrowsByAtMostOne(test_one_bad_calls, test_one_bad_calls')
          /\ GrowsByAtMostOne(test_two_bad_calls, test_two_bad_calls')
          /\ i' = i \/ (i' = i + 1 /\ i < Len(true_one))
          /\ <<counters, ids>>' # <<counters, ids>> => i' = i + 1
          /\ (pc # "done" /\ pc' = "done") => i = Len(true_one)]_vars

\* A finished pass over three columns in which test_one made three bad calls
\* and test_two switched twice.
C11_Witness ==
    /\ pc = "done" /\ i = 3
    /\ test_one_bad_calls = 3 /\ test_two_switches = 2

\* ---------------------------------------------------------------- C19
\* C19: at a single column at most one test haplotype is charged a false SNP
\* and at most one a false indel, and the two kinds are never charged at the
\* same column; so after i columns the two false-SNP counts sum to at most i
\* and the two false-indel counts sum to at most i.
C19_OneFalseChargePerColumn ==
    /\ [](/\ test_one_false_snps + test_two_false_snps <= i
          /\ test_one_false_indels + test_two_false_indels <= i)
    /\ [][/\ ~(/\ test_one_false_snps' # test_one_false_snps
                /\ test_two_false_snps' # test_two_false_snps)
          /\ ~(/\ test_one_false_indels' # test_one_false_indels
                /\ test_two_false_indels' # test_two_false_indels)
          /\ ~(/\ false_snps' # false_snps
                /\ false_indels' # false_indels)]_vars

\* An indel column where both test bases match neither true base, charged to
\* test_one alone, then a homozygous column charged as a false indel.
C19_Witness ==
    /\ i = 2 /\ HetIndel(1) /\ Homozygous(2)
    /\ MatchesNeither(test_one, 1) /\ MatchesNeither(test_two, 1)
    /\ test_one_false_snps = 1 /\ test_two_false_snps = 0
    /\ test_one_false_indels + test_two_false_indels = 1

\* ---------------------------------------------------------------- C20
\* Heterozygous SNP columns among the first n.
HetSNPColumns(n) == { k \in 1..n : HetSNP(k) }

\* C20: for each test haplotype, switch count plus bad-call count is at most
\* the number of heterozygous SNP columns classified so far; no step grows
\* both; an identity that has left unset never becomes unset again.
C20_SwitchesAndBadCallsBounded ==
    /\ [](/\ test_one_switches + test_one_bad_calls
                <= Cardinality(HetSNPColumns(i))
          /\ test_two_switches + test_two_bad_calls
                <= Cardinality(HetSNPColumns(i)))
    /\ [][/\ ~(/\ test_one_switches' # test_one_switches
                /\ test_one_bad_calls' # test_one_bad_calls)
          /\ ~(/\ test_two_switches' # test_two_switches
                /\ test_two_bad_calls' # test_two_bad_calls)
          /\ test_one_id # 0 => test_one_id' # 0
          /\ test_two_id # 0 => test_two_id' # 0]_vars

\* Three heterozygous SNP columns: test_one matches true_two, makes a bad
\* call and then switches to true_one; its identity is set throughout.
C20_Witness ==
    /\ i = 3 /\ HetSNP(1) /\ HetSNP(2) /\ HetSNP(3)
    /\ test_one[1] = true_two[1] /\ MatchesNeither(test_one, 2)
    /\ test_one[3] = true_one[3]
    /\ test_one_switches = 1 /\ test_one_bad_calls = 1 /\ test_one_id = 1

\* ---------------------------------------------------------------- C17
\* Sum of the eight counters.
CounterTotal ==
    test_one_switches + test_two_switches
        + test_one_false_snps + test_two_false_snps
        + test_one_false_indels + test_two_false_indels
        + test_one_bad_calls + test_two_bad_calls

\* The texts of the results, in the order the claim gives, and their values.
SummaryTexts ==
    << "Haplotype switches for test haplotype 1: ",
       "Haplotype switches for test haplotype 2: ",
       "False SNPs in haplotype 1: ", "False SNPs in haplotype 2: ",
       "False indels in haplotype 1: ", "False indels in haplotype 2: ",
       "Bad base calls in haplotype 1: ", "Bad base calls in haplotype 2: " >>

SummaryValues ==
    << test_one_switches, test_two_switches,
       test_one_false_snps, test_two_false_snps,
       test_one_false_indels, test_two_false_indels,
       test_one_bad_calls, test_two_bad_calls >>

IsSummaryText(t) == \E n \in 1..8 : SummaryTexts[n] = t

\* Number of lines of out with one of the texts.
LinesWith(texts) == Cardinality({ n \in 1..Len(out) : out[n][1] \in texts })

\* Lines of out before the results.
EventCount == IF pc = "done" THEN Len(out) - 8 ELSE Len(out)

\* The output as a whole: without the flag nothing but the eight results at
\* the end; with it, event lines in non-decreasing position order, as many of
\* each kind as the counters and the indel columns say, then the results.
OutputShape ==
    /\ position_output_flag = 0 => EventCount = 0
    /\ \A n \in 1..EventCount :
          /\ ~IsSummaryText(out[n][1])
          /\ out[n][2] \in 1..i
          /\ n > 1 => out[n - 1][2] <= out[n][2]
    /\ position_output_flag # 0 =>
          /\ EventCount = CounterTotal + Cardinality({ k \in 1..i : HetIndel(k) })
          /\ LinesWith({"True indel at position "}) =
                Cardinality({ k \in 1..i : HetIndel(k) })
          /\ LinesWith({"Test haplotype 1 switches at position "}) = test_one_switches
          /\ LinesWith({"Test haplotype 2 switches at position "}) = test_two_switches
          /\ LinesWith({"Test haplotype 1 doesn't match either true haplotype at position "})
                = test_one_bad_calls
          /\ LinesWith({"Test haplotype 2 doesn't match either true haplotype at position "})
                = test_two_bad_calls
          /\ LinesWith({"False indel at position "})
                = test_one_false_indels + test_two_false_indels
          /\ LinesWith({"False SNP at position ",
                        "False SNP due to test haplotype 1 at position ",
                        "False SNP due to test haplotype 2 at position "})
                = test_one_false_snps + test_two_false_snps
    /\ pc = "done" =>
          \A n \in 1..8 :
              out[EventCount + n] = <<SummaryTexts[n], SummaryValues[n]>>

\* The lines a step adds to out.
Added == SubSeq(out', Len(out) + 1, Len(out'))

\* C17: with the position-reporting flag set the output is one event line per
\* counter increment and one true-indel line per heterozygous column with a
\* gap true base, each tagged with the 1-based position of the column that
\* caused it, in non-decreasing position order, all before the eight
\* results; with the flag unset it is exactly the eight results, in the order
\* switches 1, switches 2, false SNPs 1, false SNPs 2, false indels 1, false
\* indels 2, bad calls 1, bad calls 2.
C17_EventLinesThenSummary ==
    /\ []OutputShape
    /\ [][/\ SubSeq(out', 1, Len(out)) = out
          /\ i' = i + 1 =>
                /\ Len(Added) =
                      IF position_output_flag = 0 THEN 0
                      ELSE (CounterTotal' - CounterTotal)
                               + (IF HetIndel(i + 1) THEN 1 ELSE 0)
                /\ \A n \in 1..Len(Added) : Added[n][2] = i + 1
          /\ i' = i => Len(Added) = 8]_vars

\* A finished pass with the flag set: an indel column where test_one matches
\* neither true base, then a heterozygous SNP with two bad calls; four event
\* lines tagged 1, 1, 2, 2 precede the results.
C17_Witness ==
    /\ pc = "done" /\ position_output_flag = 1 /\ i = 2
    /\ HetIndel(1) /\ HetSNP(2)
    /\ Len(out) = 12
    /\ out[1] = <<"True indel at position ", 1>>
    /\ out[2] = <<"False SNP due to test haplotype 1 at position ", 1>>
    /\ out[3] = <<"Test haplotype 1 doesn't match either true haplotype at position ", 2>>
    /\ out[4] = <<"Test haplotype 2 doesn't match either true haplotype at position ", 2>>
    /\ out[11] = <<"Bad base calls in haplotype 1: ", 1>>

\* ---------------------------------------------------------------- C16
\* C16: two runs on the same four sequences end with the same eight counters
\* and the same two identities, whether position_output_flag is set in one of
\* them, in both or in neither.
C16_SameSequencesSameCounters ==
    (pc = "done" /\ first # NoRun) =>
        (first[1].counters = counters /\ first[1].ids = ids)

\* A second run, traced, has ended after a first one that was not; a false
\* SNP was charged to test_one in both.
C16_Witness ==
    /\ pc = "done" /\ first # NoRun
    /\ first[1].flag = 0 /\ position_output_flag = 1
    /\ test_one_false_snps = 1 /\ Homozygous(1)
    /\ Len(out) = 9

\* ---------------------------------------------------------------- C18
EqualLengths ==
    /\ Len(true_two) = Len(true_one)
    /\ Len(test_one) = Len(true_one)
    /\ Len(test_two) = Len(true_one)

\* C18 as stated: whenever the four sequences do not all have the same
\* length, the loop has read a sequence at an index at or beyond its length,
\* and a loop that ran to its end ran length(true_one) steps.
C18_UnequalLengthsAreOverread ==
    (pc \in {"done", "crashed"} /\ ~EqualLengths) =>
        /\ overread # {}
        /\ pc = "done" => i = Len(true_one)

C18_AtTheEnd ==
    /\ (pc = "done" /\ exit_code = 0) =>
          /\ i = Len(true_one)
          /\ Len(true_two) < Len(true_one) => 1 \in overread
          /\ Len(test_one) < Len(true_one) => 2 \in overread
    /\ pc = "crashed" => overread # {}
    /\ \A n \in overread : Length(n) < Len(true_one)

C18_TestTwoAtColumn ==
    (InLoop /\ i' = i + 1 /\ i + 1 > Len(test_two)) =>
        \/ 3 \in overread'
        \/ /\ HetIndel(i + 1)
           /\ test_one_at(i + 1) # true_one[i + 1]
           /\ test_one_at(i + 1) # true_two_at(i + 1)

\* C18, amended: a loop that runs to its end runs length(true_one) steps and
\* has read true_two and test_one at or beyond their length when they are
\* shorter than true_one; test_two, where shorter, is so read at every column
\* but the indels at which test_one matches neither true base; a process ended
\* by a read has read a sequence beyond its length; and only a sequence
\* shorter than true_one is ever read at or beyond its length.
C18_ShorterThanTrueOneIsOverread ==
    []C18_AtTheEnd /\ [][C18_TestTwoAtColumn]_vars

\* The loop ran its two steps over an empty true_two, reading past its
\* terminator at the second, where test_one matched neither true base and
\* the shorter test_two was left unread.
C18_Witness ==
    /\ pc = "done" /\ exit_code = 0
    /\ Len(true_one) = 2 /\ Len(true_two) = 0
    /\ Len(test_one) = 2 /\ Len(test_two) = 1
    /\ overread = {1}

\* ---------------------------------------------------------------- C12
\* The sequence lines from line k of the file up to the next header.
RECURSIVE Body(_)
Body(k) ==
    IF k > Len(file) \/ IsHeader(file[k]) THEN <<>>
    ELSE file[k] \o Body(k + 1)

\* The headers of the file that contain the prefix (want = TRUE) or do not.
Matching(want) ==
    { k \in 1..Len(file) :
        IsHeader(file[k]) /\ (Find(file[k], true_prefix) <=> want) }

\* The sequence of the n-th record of that kind; empty when there is none.
NthRecord(want, n) ==
    IF Cardinality(Matching(want)) < n THEN <<>>
    ELSE Body(1 + CHOOSE k \in Matching(want) :
                    Cardinality({ j \in Matching(want) : j < k }) = n - 1)

\* C12: after loading, true_one and true_two are the sequence lines of the
\* first and of the second record whose header contains the prefix, test_one
\* and test_two those of the first and of the second record whose header does
\* not; later records add nothing.
C12_FirstTwoRecordsOfEachKind ==
    pc = "loop" =>
        /\ true_one = NthRecord(TRUE, 1)
        /\ true_two = NthRecord(TRUE, 2)
        /\ test_one = NthRecord(FALSE, 1)
        /\ test_two = NthRecord(FALSE, 2)

\* ---------------------------------------------------------------- C13
PrefixSupplied == \E k \in 1..Len(args) : args[k] = "-p T"
HelpRequested == \E k \in 1..Len(args) : args[k] \in {"-h", "--help"}
InvalidOption == \E k \in 1..Len(args) : args[k] \in {"-x", "-p"}

\* C13: without the prefix option no column is classified and main returns a
\* non-zero code, the one of the missing prefix (3) when nothing else is
\* wrong with the command line and the file.
C13_MissingPrefixIsRejected ==
    ~PrefixSupplied =>
        /\ pc \notin {"loop", "crashed"}
        /\ pc = "done" =>
              /\ exit_code # 0
              /\ i = 0
              /\ (~HelpRequested /\ ~InvalidOption /\ has_path /\ file_opens
                    /\ stream # "bad") => exit_code = 3

\* ---------------------------------------------------------------- C14
\* The codes of what is wrong with the options.
OptionCodes ==
    (IF HelpRequested THEN {1} ELSE {}) \cup (IF InvalidOption THEN {4} ELSE {})

\* C14: main returns the code of what went wrong, whatever the other inputs:
\* 1 for help and 4 for an invalid option, with or without a path and with a
\* readable file or not; otherwise 6 without a path, 5 for a file that does
\* not open, 7 for a read failure; 0 only when nothing went wrong.
C14_EachFailureItsOwnCode ==
    pc = "done" =>
        exit_code \in (IF OptionCodes # {} THEN OptionCodes
                       ELSE IF ~has_path THEN {6}
                       ELSE IF ~file_opens THEN {5}
                       ELSE IF stream = "bad" THEN {7}
                       ELSE {0})

\* ---------------------------------------------------------------- C15
\* C15: when main returns a non-zero code no column has been classified, the
\* counters and identities hold their initializers and the output holds at
\* most the usage; the column loop is entered only with no error detected and
\* the file read to its end; the results are output only when main returns 0.
C15_ErrorsEndBeforeTheLoop ==
    /\ exit_code \notin {NoExit, 0} =>
          /\ pc = "done"
          /\ i = 0 /\ AllCountersZero
          /\ test_one_id = 0 /\ test_two_id = 0
          /\ out \in {<<>>, UsageLines}
    /\ pc = "loop" => (exit_code = NoExit /\ helpflag = 0 /\ stream = "eof")
    /\ (\E n \in 1..Len(out) : IsSummaryText(out[n][1])) => exit_code = 0

\* A read failed after a true record with a sequence line was loaded: main
\* returned 7 with nothing classified and nothing output.
C15_Witness ==
    /\ pc = "done" /\ exit_code = 7
    /\ Len(true_one) = 2
    /\ Len(file) = 4
    /\ out = <<>>

====
